---- MODULE Spec2Model ----
(***************************************************************************)
(* The chunked upload pipeline of MixStream (src/lib/supabase.ts) and the  *)
(* upload modal that drives it (components/Upload/UploadModal.tsx).        *)
(*                                                                         *)
(* JavaScript runs one task at a time, so one action is one task: a user   *)
(* event, the settling of one storage or catalog call, or the firing of    *)
(* one timer, together with every synchronous continuation it triggers.    *)
(***************************************************************************)
EXTENDS Integers, Sequences, FiniteSets, TLC

VARIABLES
    now,          \* the wall clock, in ms: what Date.now() returns
    pauses,       \* how many long pauses the clock has made (bounded)
    ledger,       \* localStorage: key upload-<uploadId> -> progress record
    objects,      \* the storage bucket: object path -> the bytes it holds
    selectedFile, \* UploadModal state: the chosen file (its size) or NoFile
    title,        \* UploadModal state: the title field, its characters
    user,         \* useAuth(): the signed-in user, or NoUser
    status,       \* UploadModal state: uploadProgress.status
    progress,     \* UploadModal state: uploadProgress.progress
    nRuns,        \* how many times handleUpload went past its precondition
    bound,        \* what is explored: [runs, chunks, failures]
    runs,         \* per invocation: the state of handleUpload and uploadFile
    calls,        \* the last call of a function explored on its own
    dashboard     \* Dashboard state, and its handlePlayMix invocations

vars == <<now, pauses, ledger, objects, selectedFile, title, status, progress,
          nRuns, bound, runs, calls, user, dashboard>>

-----------------------------------------------------------------------------
(* Bounds of the model *)

MaxChunks == 4        \* the largest file explored has this many chunks
MaxFailures == 6      \* failed storage uploads explored
MaxPauses == 1        \* long (more than 24 h) pauses of the clock
MaxRuns == 2          \* handleUpload invocations in the modal specification
MaxFormRuns == 1         \* handleUpload invocations of the form specification
MaxFormChunks == 2       \* the largest file of the form specification
MaxFormFailures == 1     \* failed storage uploads of the form specification
MaxModalChunks == 2   \* the largest file of the modal specification
MaxModalFailures == 3 \* failed storage uploads of the modal specification
MaxResumeFailures == 3 \* failed storage uploads of the resume specification
MaxTicks == 2         \* clock steps of the ledger specification
MaxLedgerChunks == 1  \* chunk indices of the ledger specification
MaxPlays == 2         \* handlePlayMix invocations of the player specification
MaxPlanChunks == 8    \* whole chunks of the files of the plan specification

-----------------------------------------------------------------------------
(* Program constants *)

UPLOAD_CONCURRENCY == 3
CHUNK_SIZE == 20 * 1024 * 1024
MAX_RETRIES == 3
ProgressTtlMs == 24 * 60 * 60 * 1000
MAX_FILE_KIB == 2 * 1024 * 1024  \* the 2 GB limit, in KiB
SIGNED_URL_TTL == 86400

NoFile == -1
NoError == [op |-> "none", chunk |-> -1, attempt |-> 0]
NoCall == [op |-> "none"]

Min(a, b) == IF a < b THEN a ELSE b

RECURSIVE Pow2(_)
Pow2(n) == IF n = 0 THEN 1 ELSE 2 * Pow2(n - 1)

RECURSIVE Gcd(_, _)
Gcd(a, b) == IF b = 0 THEN a ELSE Gcd(b, a % b)

(* A progress value is a non-negative rational num/den in lowest terms. *)
Frac(n, d) == LET g == Gcd(n, d) IN [num |-> n \div g, den |-> d \div g]
FracLeq(p, q) == p.num * q.den <= q.num * p.den
FracLess(p, q) == p.num * q.den < q.num * p.den
FracMin(p, q) == IF FracLeq(p, q) THEN p ELSE q
Whole(n) == Frac(n, 1)

Range(s) == {s[k] : k \in 1..Len(s)}

-----------------------------------------------------------------------------
(* localStorage, as a function from the keys present to their records *)

setItem(ls, key, rec) ==
    [k \in DOMAIN ls \cup {key} |-> IF k = key THEN rec ELSE ls[k]]

removeItem(ls, key) == [k \in DOMAIN ls \ {key} |-> ls[k]]

(* The arrays of chunk indices (uploadFile's uploadedChunks, the record's  *)
(* uploadedChunks) are read only through length, includes and new Set, so  *)
(* the model keeps them in ascending order: arrays that differ only in the *)
(* order of their elements are one state. Duplicates are kept.            *)

(* [...s, x] *)
RECURSIVE Push(_, _)
Push(s, x) ==
    IF s = <<>> \/ s[Len(s)] <= x THEN Append(s, x)
    ELSE Append(Push(SubSeq(s, 1, Len(s) - 1), x), s[Len(s)])

(* a variant of Dedup that keeps every occurrence *)
DedupKeepsAll(s) == s

(* [...new Set(s)]: one occurrence of every element *)
RECURSIVE Dedup(_)
Dedup(s) ==
    IF s = <<>> THEN <<>>
    ELSE LET front == Dedup(SubSeq(s, 1, Len(s) - 1))
             last == s[Len(s)]
         IN IF last \in Range(front) THEN front ELSE Append(front, last)

(* a variant of withChunk that also adds the index that follows *)
withChunkAndNext(uploadedChunks, chunkIndex) ==
    Dedup(Push(Push(uploadedChunks, chunkIndex), chunkIndex + 1))

(* a variant of withChunk that keeps only the new index *)
withChunkAlone(uploadedChunks, chunkIndex) == <<chunkIndex>>

(* [...new Set([...uploadedChunks, chunkIndex])] *)
withChunk(uploadedChunks, chunkIndex) == Dedup(Push(uploadedChunks, chunkIndex))

(* a variant of saveUploadProgress that keeps the time of the first save *)
saveUploadProgressOldStamp(ls, uploadId, uploadedChunks, totalChunks, t) ==
    setItem(ls, uploadId,
            [uploadedChunks |-> Dedup(uploadedChunks),
             totalChunks |-> totalChunks,
             timestamp |-> IF uploadId \in DOMAIN ls
                           THEN ls[uploadId].timestamp ELSE t])

saveUploadProgress(ls, uploadId, uploadedChunks, totalChunks, t) ==
    setItem(ls, uploadId, [uploadedChunks |-> Dedup(uploadedChunks),
                           totalChunks |-> totalChunks,
                           timestamp |-> t])

(* a variant of Expired that expires a record aged exactly 24 hours *)
ExpiredAtTtl(ls, uploadId, t) ==
    /\ uploadId \in DOMAIN ls
    /\ t - ls[uploadId].timestamp >= ProgressTtlMs

(* getResumedChunks: the record is expired when older than 24 hours *)
Expired(ls, uploadId, t) ==
    /\ uploadId \in DOMAIN ls
    /\ t - ls[uploadId].timestamp > ProgressTtlMs

(* getResumedChunks: the value it returns ... *)
getResumedChunks(ls, uploadId, t) ==
    IF uploadId \notin DOMAIN ls THEN <<>>
    ELSE IF Expired(ls, uploadId, t) THEN <<>>
    ELSE ls[uploadId].uploadedChunks

(* ... and localStorage after the call (an expired record is removed) *)
getResumedChunksStore(ls, uploadId, t) ==
    IF Expired(ls, uploadId, t) THEN removeItem(ls, uploadId) ELSE ls

-----------------------------------------------------------------------------
(* uploadFile and uploadChunk: the pure parts *)

(* a variant of CeilDiv that rounds down *)
FloorDiv(a, b) == a \div b

(* Math.ceil(a / b) *)
CeilDiv(a, b) == IF a % b = 0 THEN a \div b ELSE a \div b + 1

TotalChunks(fileSize) == CeilDiv(fileSize, CHUNK_SIZE)

(* Array.from({length: totalChunks}, (_, i) => i).filter(not uploaded) *)
RECURSIVE chunkIndexesFrom(_, _, _)
chunkIndexesFrom(i, totalChunks, uploadedChunks) ==
    IF i >= totalChunks THEN <<>>
    ELSE IF i \in Range(uploadedChunks)
         THEN chunkIndexesFrom(i + 1, totalChunks, uploadedChunks)
         ELSE <<i>> \o chunkIndexesFrom(i + 1, totalChunks, uploadedChunks)

(* a variant of chunkIndexes that lists the highest index first *)
chunkIndexesDescending(totalChunks, uploadedChunks) ==
    LET up == chunkIndexesFrom(0, totalChunks, uploadedChunks)
    IN [k \in 1..Len(up) |-> up[Len(up) + 1 - k]]

(* a variant of chunkIndexes without the filter *)
chunkIndexesUnfiltered(totalChunks, uploadedChunks) ==
    chunkIndexesFrom(0, totalChunks, <<>>)

chunkIndexes(totalChunks, uploadedChunks) ==
    chunkIndexesFrom(0, totalChunks, uploadedChunks)

(* the delay before the retry that follows failed attempt number `attempt` *)
Backoff(attempt) == 1000 * Pow2(attempt)

(* a variant of retries that allows one attempt more *)
retriesOnceMore(attempt) == attempt <= MAX_RETRIES

(* a variant of retries that gives up after the first failure *)
retriesNever(attempt) == FALSE

(* after failed attempt number `attempt` the loop makes another attempt *)
retries(attempt) == attempt < MAX_RETRIES

(* a variant of lastErrorAfter that keeps the first error *)
lastErrorKeptFirst(lastError, error) ==
    IF lastError = NoError THEN error ELSE lastError

(* lastError = error *)
lastErrorAfter(lastError, error) == error

(* a variant of ChunkProgress that scales to 100 *)
ChunkProgressFull(uploadedLength, totalChunks) ==
    Frac((uploadedLength + 1) * 100, totalChunks)

(* (uploadedChunks.length + 1) / totalChunks * 95 *)
ChunkProgress(uploadedLength, totalChunks) ==
    Frac((uploadedLength + 1) * 95, totalChunks)

(* the modal's progress callback: Math.min(progress, 95) *)
Shown(p) == FracMin(p, Whole(95))

(* the error of one failed attempt, and the error of a failed move *)
UploadError(i, attempt) == [op |-> "upload", chunk |-> i, attempt |-> attempt]

MoveError == [op |-> "move", chunk |-> -1, attempt |-> 0]

PartPath(r, i) == <<r, i>>
FinalPath(r) == <<r, -1>>

(* a variant of ChunkStart whose chunks begin one byte early *)
ChunkStartEarly(chunkIndex) ==
    IF chunkIndex = 0 THEN 0 ELSE chunkIndex * CHUNK_SIZE - 1

(* uploadChunk: file.slice(start, end), as the byte range [from, to) *)
ChunkStart(chunkIndex) == chunkIndex * CHUNK_SIZE

(* a variant of ChunkEnd that slices to the end of the file *)
ChunkEndOfFile(chunkIndex, fileSize) == fileSize

ChunkEnd(chunkIndex, fileSize) ==
    Min(ChunkStart(chunkIndex) + CHUNK_SIZE, fileSize)

ChunkBytes(chunkIndex, fileSize) ==
    [from |-> ChunkStart(chunkIndex), to |-> ChunkEnd(chunkIndex, fileSize)]

(* a variant of chunksToRemove that starts at part 0 *)
chunksToRemoveFromZero(r, totalChunks) ==
    {PartPath(r, i) : i \in 0..(totalChunks - 1)}

(* completeUpload: chunksToRemove, the part paths 1 .. totalChunks - 1 *)
chunksToRemove(r, totalChunks) == {PartPath(r, i) : i \in 1..(totalChunks - 1)}

(* the storage bucket: upload with upsert, move, remove *)
storageUpload(objs, path, bytes) ==
    [q \in DOMAIN objs \cup {path} |-> IF q = path THEN bytes ELSE objs[q]]

storageMove(objs, from, to) ==
    [q \in (DOMAIN objs \ {from}) \cup {to} |->
        IF q = to THEN objs[from] ELSE objs[q]]

storageRemove(objs, paths) == [q \in DOMAIN objs \ paths |-> objs[q]]

-----------------------------------------------------------------------------
(* The user and the title *)

NoUser == "null"
SignedIn == "user-1"

Whitespace == {" ", "\t"}

(* the file name without its extension: handleFileSelect's default title *)
FileName == <<"m", "i", "x">>

(* what may be typed into the title input *)
Titles == {<<>>, <<" ", "\t">>, <<" ", "m", " ", "x", "\t">>, FileName}

(* String.prototype.trim: the characters without the leading and the       *)
(* trailing whitespace                                                     *)
RECURSIVE trim(_)
trim(t) ==
    IF t = <<>> THEN t
    ELSE IF Head(t) \in Whitespace THEN trim(Tail(t))
    ELSE IF t[Len(t)] \in Whitespace THEN trim(SubSeq(t, 1, Len(t) - 1))
    ELSE t

-----------------------------------------------------------------------------
(* One invocation of handleUpload, and of uploadFile inside it *)

NewChunk(skipped) ==
    [st |-> IF skipped THEN "skipped" ELSE "pending",
     attempt |-> 0, lastError |-> NoError, delays |-> <<>>]

EmptyRun ==
    [pc |-> "idle",            \* where handleUpload stands
     file |-> NoFile,          \* the file it captured
     user |-> NoUser,          \* the user it captured: user.id in filePath
     title |-> <<>>,           \* title.trim(), for the catalog record
     retry |-> FALSE,          \* invoked after the previous uploadFile rejected
     list |-> "none",          \* what storage.list() answered the bucket check
     uploadId |-> <<>>,
     totalChunks |-> 0,
     loaded |-> <<>>,          \* what getResumedChunks returned at the start
     uploadedChunks |-> <<>>,  \* uploadFile's local variable
     queue |-> <<>>,           \* chunkIndexes, the input of pMap
     currentIndex |-> 0,       \* pMap: how many inputs were taken
     resolvingCount |-> 0,     \* pMap: mappers running
     isRejected |-> FALSE,     \* pMap: a mapper has rejected
     settled |-> "pending",    \* pMap's promise
     chunks |-> <<>>,          \* chunk index -> state of its uploadChunk
     reports |-> <<>>,         \* what uploadFile passed to onProgress
     result |-> [state |-> "notCalled", error |-> NoError],
     completeCalled |-> FALSE, \* completeUpload was invoked
     removeRequested |-> {},   \* the paths completeUpload asked to remove
     removeOutcome |-> "none", \* how that request settled
     insertIssued |-> FALSE]   \* the insert into music_mixes was sent

(* a variant of pMapNext that does not look at isRejected *)
pMapNextAfterReject(rn) ==
    IF rn.currentIndex >= Len(rn.queue)
    THEN IF rn.resolvingCount = 0 /\ rn.settled = "pending"
         THEN [rn EXCEPT !.settled = "resolved"]
         ELSE rn
    ELSE LET i == rn.queue[rn.currentIndex + 1]
         IN [rn EXCEPT !.currentIndex = @ + 1,
                       !.resolvingCount = @ + 1,
                       !.chunks[i].st = "upload",
                       !.chunks[i].attempt = 1]

(* a variant of pMapNext that never resolves *)
pMapNextNoResolve(rn) ==
    IF rn.isRejected THEN rn
    ELSE IF rn.currentIndex >= Len(rn.queue)
         THEN rn
         ELSE LET i == rn.queue[rn.currentIndex + 1]
              IN [rn EXCEPT !.currentIndex = @ + 1,
                            !.resolvingCount = @ + 1,
                            !.chunks[i].st = "upload",
                            !.chunks[i].attempt = 1]

(* p-map's next(): take the next input and start its mapper, or resolve *)
pMapNext(rn) ==
    IF rn.isRejected THEN rn
    ELSE IF rn.currentIndex >= Len(rn.queue)
         THEN IF rn.resolvingCount = 0 /\ rn.settled = "pending"
              THEN [rn EXCEPT !.settled = "resolved"]
              ELSE rn
         ELSE LET i == rn.queue[rn.currentIndex + 1]
              IN [rn EXCEPT !.currentIndex = @ + 1,
                            !.resolvingCount = @ + 1,
                            !.chunks[i].st = "upload",
                            !.chunks[i].attempt = 1]

(* p-map's start: next() once per slot of the concurrency limit *)
RECURSIVE pMapLoop(_, _)
pMapLoop(rn, n) == IF n = 0 THEN rn ELSE pMapLoop(pMapNext(rn), n - 1)

(* a variant of pMapStart with one slot too many *)
pMapStartWide(rn) == pMapLoop(rn, UPLOAD_CONCURRENCY + 1)

pMapStart(rn) == pMapLoop(rn, UPLOAD_CONCURRENCY)

(* a variant of afterMap that does not wait for the mappers still running *)
afterMapEager(rn) ==
    IF rn.pc = "map" /\ rn.currentIndex >= Len(rn.queue) /\ ~rn.isRejected
    THEN [rn EXCEPT !.pc = "move", !.completeCalled = TRUE]
    ELSE rn

(* uploadFile after `await pMap(...)`: completeUpload issues the move *)
afterMap(rn) ==
    IF rn.settled = "resolved" /\ rn.pc = "map"
    THEN [rn EXCEPT !.pc = "move", !.completeCalled = TRUE]
    ELSE rn

(* the invocations of handleUpload that went past its precondition *)
Started(r) == r \in 1..nRuns

(* the chunk indices of invocation r: 0 .. totalChunks - 1 *)
Chunks(r) == DOMAIN runs[r].chunks

(* the chunks whose uploadChunk is running: in a storage call or a backoff *)
InFlight(r) == {i \in Chunks(r) : runs[r].chunks[i].st \in {"upload", "backoff"}}

(* how many storage uploads have failed so far, in all invocations *)
FailedAttempts(c) ==
    IF c.st \in {"backoff", "failed"} THEN c.attempt
    ELSE IF c.attempt = 0 THEN 0 ELSE c.attempt - 1

RECURSIVE Sum(_, _)
Sum(f, S) ==
    IF S = {} THEN 0
    ELSE LET x == CHOOSE y \in S : TRUE IN f[x] + Sum(f, S \ {x})

Failures ==
    Sum([r \in 1..nRuns |->
            Sum([i \in Chunks(r) |-> FailedAttempts(runs[r].chunks[i])],
                Chunks(r))],
        1..nRuns)

-----------------------------------------------------------------------------
(* The files the user may pick: one size for every chunk count explored *)

(* handleFileSelect: a file larger than 2 GB is refused. The comparison   *)
(* file.size > 2 * 1024 * 1024 * 1024 is made on KiB and remainder, 2^31   *)
(* being one more than the largest integer the checker computes with.      *)
accepted(fileSize) ==
    ~(\/ fileSize \div 1024 > MAX_FILE_KIB
      \/ fileSize \div 1024 = MAX_FILE_KIB /\ fileSize % 1024 > 0)

FileOfChunks(n) ==
    IF n = 0 THEN 0 ELSE (n - 1) * CHUNK_SIZE + CHUNK_SIZE \div 4

FileSizes == {FileOfChunks(n) : n \in 0..bound.chunks}

-----------------------------------------------------------------------------
(* User events of the modal *)

(* handleFileSelect, for a file that passes its size and type checks *)
SelectFile(f) ==
    /\ selectedFile = NoFile
    /\ f \in FileSizes
    /\ accepted(f)
    /\ selectedFile' = f
    /\ title' = FileName
    /\ UNCHANGED <<now, pauses, ledger, objects, status, progress, nRuns,
                   bound, dashboard, user, calls, runs>>

(* the X button beside the chosen file *)
RemoveFile ==
    /\ selectedFile # NoFile
    /\ status # "uploading"
    /\ selectedFile' = NoFile
    /\ title' = <<>>
    /\ UNCHANGED <<now, pauses, ledger, objects, status, progress, nRuns,
                   bound, dashboard, user, calls, runs>>

(* the title input: onChange sets the title to what was typed *)
SetTitle(t) ==
    /\ status # "uploading"
    /\ t \in Titles
    /\ t # title
    /\ title' = t
    /\ UNCHANGED <<now, pauses, ledger, objects, selectedFile, status,
                   progress, nRuns, bound, dashboard, user, calls, runs>>

(* the session ends (sign-out, in this tab or another): useAuth() gives    *)
(* no user                                                                 *)
SignOut ==
    /\ user = SignedIn
    /\ user' = NoUser
    /\ UNCHANGED <<now, pauses, ledger, objects, selectedFile, title, status,
                   progress, nRuns, bound, dashboard, calls, runs>>

(* the title input, emptied by the user *)
ClearTitle ==
    /\ status # "uploading"
    /\ title # <<>>
    /\ title' = <<>>
    /\ UNCHANGED <<now, pauses, ledger, objects, selectedFile, status,
                   progress, nRuns, bound, dashboard, user, calls, runs>>

(* a variant of handleUpload whose precondition leaves out the user *)
handleUploadAnyUser ==
    IF selectedFile = NoFile \/ trim(title) = <<>>
    THEN /\ status' = "error"
         /\ progress' = Whole(0)
         /\ UNCHANGED <<nRuns, runs>>
    ELSE /\ nRuns < bound.runs
         /\ status' = "uploading"
         /\ progress' = Whole(0)
         /\ nRuns' = nRuns + 1
         /\ runs' = [runs EXCEPT ![nRuns + 1] =
                        [EmptyRun EXCEPT
                            !.pc = "bucket",
                            !.file = selectedFile,
                            !.user = user,
                            !.title = trim(title),
                            !.retry = /\ nRuns >= 1
                                      /\ runs[nRuns].result.state = "rejected"]]

(* handleUpload up to its first await *)
handleUpload ==
    IF selectedFile = NoFile \/ user = NoUser \/ trim(title) = <<>>
    THEN /\ status' = "error"
         /\ progress' = Whole(0)
         /\ UNCHANGED <<nRuns, runs>>
    ELSE /\ nRuns < bound.runs
         /\ status' = "uploading"
         /\ progress' = Whole(0)
         /\ nRuns' = nRuns + 1
         /\ runs' = [runs EXCEPT ![nRuns + 1] =
                        [EmptyRun EXCEPT
                            !.pc = "bucket",
                            !.file = selectedFile,
                            !.user = user,
                            !.title = trim(title),
                            !.retry = /\ nRuns >= 1
                                      /\ runs[nRuns].result.state = "rejected"]]

(* the Upload Mix button: disabled without a file, with a blank title and  *)
(* while uploading                                                         *)
ClickUpload ==
    /\ selectedFile # NoFile
    /\ trim(title) # <<>>
    /\ status # "uploading"
    /\ handleUpload
    /\ UNCHANGED <<now, pauses, ledger, objects, selectedFile, title, bound, dashboard, user, calls>>

(* the Retry button of UploadProgress: onRetry = handleUpload *)
ClickRetry ==
    /\ status = "error"
    /\ selectedFile # NoFile
    /\ handleUpload
    /\ UNCHANGED <<now, pauses, ledger, objects, selectedFile, title, bound, dashboard, user, calls>>

(* the Try Again button: handleRetry *)
handleRetry ==
    /\ status = "error"
    /\ selectedFile # NoFile
    /\ status' = "idle"
    /\ progress' = Whole(0)
    /\ UNCHANGED <<now, pauses, ledger, objects, selectedFile, title, nRuns,
                   bound, dashboard, user, calls, runs>>

(* the Cancel button of UploadProgress: handleCancel *)
handleCancel ==
    /\ status = "uploading"
    /\ selectedFile # NoFile
    /\ status' = "idle"
    /\ progress' = Whole(0)
    /\ UNCHANGED <<now, pauses, ledger, objects, selectedFile, title, nRuns,
                   bound, dashboard, user, calls, runs>>

(* the Start Over button: resetForm *)
resetForm ==
    /\ status = "error"
    /\ selectedFile # NoFile
    /\ selectedFile' = NoFile
    /\ title' = <<>>
    /\ status' = "idle"
    /\ progress' = Whole(0)
    /\ UNCHANGED <<now, pauses, ledger, objects, nRuns, bound, dashboard, user, calls, runs>>

-----------------------------------------------------------------------------
(* The clock *)

(* More than 24 hours pass (a stalled request, a suspended machine). The   *)
(* clock is read by the chunks in flight, against the ledger record of     *)
(* their upload; a pause that no such read can tell from no pause is       *)
(* left out.                                                               *)
LongPause ==
    /\ pauses < MaxPauses
    /\ \E r \in 1..nRuns : /\ runs[r].uploadId \in DOMAIN ledger
                            /\ ~Expired(ledger, runs[r].uploadId, now)
                            /\ InFlight(r) # {}
    /\ pauses' = pauses + 1
    /\ now' = now + ProgressTtlMs + 1
    /\ UNCHANGED <<ledger, objects, selectedFile, title, status, progress,
                   nRuns, bound, dashboard, user, calls, runs>>

-----------------------------------------------------------------------------
(* handleUpload: the pre-flight check *)

(* what storage.list() may answer to checkStorageBucket: no error, an      *)
(* error saying the bucket was not found, another error, or an exception   *)
ListReplies == {"ok", "notFound", "error", "threw"}

(* a variant of checkStorageBucket that takes only a missing bucket as a   *)
(* failure                                                                 *)
checkStorageBucketLenient(reply) == reply # "notFound"

(* checkStorageBucket: true without an error; false with an error of       *)
(* either kind, and false from its catch                                   *)
checkStorageBucket(reply) ==
    IF reply = "threw" THEN FALSE
    ELSE IF reply = "ok" THEN TRUE
    ELSE IF reply = "notFound" THEN FALSE
    ELSE FALSE

(* checkStorageBucket settles *)
BucketChecked(r, reply) ==
    /\ Started(r)
    /\ runs[r].pc = "bucket"
    /\ reply \in ListReplies
    /\ IF checkStorageBucket(reply)
       THEN /\ runs' = [runs EXCEPT ![r].pc = "hash",
                                    ![r].list = reply,
                                    ![r].result.state = "pending"]
            /\ UNCHANGED <<status, progress>>
       ELSE /\ runs' = [runs EXCEPT ![r].pc = "error", ![r].list = reply]
            /\ status' = "error"
            /\ progress' = Whole(0)
    /\ UNCHANGED <<now, pauses, ledger, objects, selectedFile, title, nRuns,
                   bound, dashboard, user, calls>>

(* uploadFile: generateFileHash settles; the plan is made and pMap starts. *)
(* The clock reading is later than any reading of an earlier invocation:   *)
(* a bucket check and the hashing of the file lie between them.            *)
StartUpload(r) ==
    /\ Started(r)
    /\ runs[r].pc = "hash"
    /\ LET t == now + 1
           rn == runs[r]
           id == <<rn.file, t>>
           total == TotalChunks(rn.file)
           resumed == getResumedChunks(ledger, id, t)
           planned == [rn EXCEPT
                         !.pc = "map",
                         !.uploadId = id,
                         !.totalChunks = total,
                         !.loaded = resumed,
                         !.uploadedChunks = resumed,
                         !.queue = chunkIndexes(total, resumed),
                         !.chunks = [i \in 0..(total - 1) |->
                                        NewChunk(i \in Range(resumed))]]
       IN /\ now' = t
          /\ ledger' = getResumedChunksStore(ledger, id, t)
          /\ runs' = [runs EXCEPT ![r] = afterMap(pMapStart(planned))]
    /\ UNCHANGED <<pauses, objects, selectedFile, title, status, progress,
                   nRuns, bound, dashboard, user, calls>>

-----------------------------------------------------------------------------
(* uploadChunk *)

(* the storage upload of chunk i settles without error: uploadChunk reads  *)
(* the ledger, reports progress (uploadFile's callback saves the ledger    *)
(* and calls the modal's callback) and returns; the mapper saves the       *)
(* ledger again and p-map takes the next input                             *)
UploadOk(r, i) ==
    /\ Started(r)
    /\ i \in Chunks(r)
    /\ runs[r].chunks[i].st = "upload"
    /\ LET rn == runs[r]
           id == rn.uploadId
           resumed == getResumedChunks(ledger, id, now)
           read == getResumedChunksStore(ledger, id, now)
           p == ChunkProgress(Len(resumed), rn.totalChunks)
           inCallback == withChunk(rn.uploadedChunks, i)
           saved1 == saveUploadProgress(read, id, inCallback, rn.totalChunks, now)
           inMapper == withChunk(inCallback, i)
           saved2 == saveUploadProgress(saved1, id, inMapper, rn.totalChunks, now)
           returned == [rn EXCEPT !.chunks[i].st = "ok",
                                  !.uploadedChunks = inMapper,
                                  !.reports = Append(@, p),
                                  !.resolvingCount = @ - 1]
       IN /\ ledger' = saved2
          /\ objects' = storageUpload(objects, PartPath(r, i),
                                      ChunkBytes(i, rn.file))
          /\ status' = "uploading"
          /\ progress' = Shown(p)
          /\ runs' = [runs EXCEPT ![r] = afterMap(pMapNext(returned))]
    /\ UNCHANGED <<now, pauses, selectedFile, title, nRuns, bound, dashboard, user, calls>>

(* the storage upload of chunk i fails, by a returned error or by an       *)
(* exception (the two branches do the same): back off and retry, or throw  *)
(* the last error, which rejects pMap, uploadFile and lands in             *)
(* handleUpload's catch                                                    *)
UploadFailed(r, i) ==
    /\ Started(r)
    /\ i \in Chunks(r)
    /\ runs[r].chunks[i].st = "upload"
    /\ Failures < bound.failures
    /\ LET rn == runs[r]
           attempt == rn.chunks[i].attempt
           error == lastErrorAfter(rn.chunks[i].lastError,
                                   UploadError(i, attempt))
       IN IF retries(attempt)
          THEN /\ runs' = [runs EXCEPT
                             ![r].chunks[i].st = "backoff",
                             ![r].chunks[i].lastError = error,
                             ![r].chunks[i].delays = Append(@, Backoff(attempt))]
               /\ UNCHANGED <<status, progress>>
          ELSE IF rn.settled = "pending"
               THEN /\ runs' = [runs EXCEPT
                                  ![r].chunks[i].st = "failed",
                                  ![r].chunks[i].lastError = error,
                                  ![r].isRejected = TRUE,
                                  ![r].settled = "rejected",
                                  ![r].result = [state |-> "rejected",
                                                 error |-> error],
                                  ![r].pc = "error"]
                    /\ status' = "error"
                    /\ progress' = Whole(0)
               ELSE /\ runs' = [runs EXCEPT
                                  ![r].chunks[i].st = "failed",
                                  ![r].chunks[i].lastError = error,
                                  ![r].isRejected = TRUE]
                    /\ UNCHANGED <<status, progress>>
    /\ UNCHANGED <<now, pauses, ledger, objects, selectedFile, title, nRuns,
                   bound, dashboard, user, calls>>

(* the backoff timer of chunk i fires: the next attempt starts *)
BackoffElapsed(r, i) ==
    /\ Started(r)
    /\ i \in Chunks(r)
    /\ runs[r].chunks[i].st = "backoff"
    /\ runs' = [runs EXCEPT ![r].chunks[i].st = "upload",
                            ![r].chunks[i].attempt = @ + 1]
    /\ UNCHANGED <<now, pauses, ledger, objects, selectedFile, title, status,
                   progress, nRuns, bound, dashboard, user, calls>>

-----------------------------------------------------------------------------
(* completeUpload and the rest of uploadFile and handleUpload *)

(* completeUpload returns: uploadFile reports 100 (the modal's callback    *)
(* caps it at 95), clears the ledger entry and resolves; handleUpload      *)
(* shows success and starts reading the media duration                     *)
Completed(rn) ==
    [rn EXCEPT !.pc = "duration",
               !.reports = Append(@, Whole(100)),
               !.result.state = "resolved"]

(* a variant of afterRemove in which a failed removal fails the upload *)
afterRemoveStrict(rn, outcome) ==
    IF outcome = "ok"
    THEN [Completed(rn) EXCEPT !.removeOutcome = outcome]
    ELSE [rn EXCEPT !.pc = "error", !.removeOutcome = outcome,
                    !.result = [state |-> "rejected", error |-> MoveError]]

(* completeUpload after `await remove(...).catch(console.warn)`: neither   *)
(* a returned error nor a rejection is looked at                           *)
afterRemove(rn, outcome) == [Completed(rn) EXCEPT !.removeOutcome = outcome]

(* the move of part0 to the final path succeeds *)
MoveOk(r) ==
    /\ Started(r)
    /\ runs[r].pc = "move"
    /\ PartPath(r, 0) \in DOMAIN objects
    /\ objects' = storageMove(objects, PartPath(r, 0), FinalPath(r))
    /\ IF chunksToRemove(r, runs[r].totalChunks) # {}
       THEN /\ runs' = [runs EXCEPT
                          ![r].pc = "remove",
                          ![r].removeRequested =
                              chunksToRemove(r, runs[r].totalChunks)]
            /\ UNCHANGED <<ledger, status, progress>>
       ELSE /\ runs' = [runs EXCEPT ![r] = Completed(@)]
            /\ ledger' = removeItem(ledger, runs[r].uploadId)
            /\ status' = "success"
            /\ progress' = Whole(100)
    /\ UNCHANGED <<now, pauses, selectedFile, title, nRuns, bound, dashboard, user, calls>>

(* a variant of MoveFailed that clears the ledger record on the way out *)
MoveFailedClearing(r) ==
    /\ Started(r)
    /\ runs[r].pc = "move"
    /\ runs' = [runs EXCEPT ![r].pc = "error",
                            ![r].result = [state |-> "rejected",
                                           error |-> MoveError]]
    /\ ledger' = removeItem(ledger, runs[r].uploadId)
    /\ status' = "error"
    /\ progress' = Whole(0)
    /\ UNCHANGED <<now, pauses, objects, selectedFile, title, nRuns, bound, dashboard, user, calls>>

(* a variant of MoveFailed in which handleUpload goes on after the failure *)
MoveFailedSwallowed(r) ==
    /\ Started(r)
    /\ runs[r].pc = "move"
    /\ runs' = [runs EXCEPT ![r].pc = "duration",
                            ![r].result = [state |-> "rejected",
                                           error |-> MoveError]]
    /\ status' = "success"
    /\ progress' = Whole(100)
    /\ UNCHANGED <<now, pauses, ledger, objects, selectedFile, title, nRuns,
                   bound, dashboard, user, calls>>

(* the move fails: completeUpload throws, uploadFile rejects *)
MoveFailed(r) ==
    /\ Started(r)
    /\ runs[r].pc = "move"
    /\ runs' = [runs EXCEPT ![r].pc = "error",
                            ![r].result = [state |-> "rejected",
                                           error |-> MoveError]]
    /\ status' = "error"
    /\ progress' = Whole(0)
    /\ UNCHANGED <<now, pauses, ledger, objects, selectedFile, title, nRuns,
                   bound, dashboard, user, calls>>

(* the removal of the leftover parts settles: done, refused with an error, *)
(* or rejected (caught by console.warn)                                     *)
RemoveSettled(r, outcome) ==
    /\ Started(r)
    /\ runs[r].pc = "remove"
    /\ objects' = IF outcome = "ok"
                  THEN storageRemove(objects, runs[r].removeRequested)
                  ELSE objects
    /\ runs' = [runs EXCEPT ![r] = afterRemove(@, outcome)]
    /\ ledger' = removeItem(ledger, runs[r].uploadId)
    /\ status' = "success"
    /\ progress' = Whole(100)
    /\ UNCHANGED <<now, pauses, selectedFile, title, nRuns, bound, dashboard, user, calls>>

(* getMediaDuration settles; its failure is only logged *)
DurationSettled(r) ==
    /\ Started(r)
    /\ runs[r].pc = "duration"
    /\ runs' = [runs EXCEPT ![r].pc = "insert", ![r].insertIssued = TRUE]
    /\ UNCHANGED <<now, pauses, ledger, objects, selectedFile, title, status,
                   progress, nRuns, bound, dashboard, user, calls>>

(* the catalog insert settles *)
InsertSettled(r, ok) ==
    /\ Started(r)
    /\ runs[r].pc = "insert"
    /\ IF ok
       THEN /\ runs' = [runs EXCEPT ![r].pc = "done"]
            /\ UNCHANGED <<status, progress>>
       ELSE /\ runs' = [runs EXCEPT ![r].pc = "error"]
            /\ status' = "error"
            /\ progress' = Whole(0)
    /\ UNCHANGED <<now, pauses, ledger, objects, selectedFile, title, nRuns,
                   bound, dashboard, user, calls>>

(* 1500 ms after the insert: resetForm, onUploadComplete, onClose *)
CloseTimer(r) ==
    /\ Started(r)
    /\ runs[r].pc = "done"
    /\ runs' = [runs EXCEPT ![r].pc = "closed"]
    /\ selectedFile' = NoFile
    /\ title' = <<>>
    /\ status' = "idle"
    /\ progress' = Whole(0)
    /\ UNCHANGED <<now, pauses, ledger, objects, nRuns, bound, dashboard, user, calls>>

-----------------------------------------------------------------------------
(* The Dashboard: its state, and one record per handlePlayMix invocation *)

NoMix == [id |-> 0, file_path |-> "", play_count |-> 0]

NoStreamingUrl == <<"null", "", 0>>

Plays == 1..MaxPlays

EmptyPlay ==
    [pc |-> "idle",           \* where handlePlayMix stands
     mix |-> NoMix,           \* its argument
     url |-> [outcome |-> "pending", value |-> NoStreamingUrl],
     updateIssued |-> FALSE,  \* the play_count update was sent
     updateValue |-> 0,       \* the play_count it writes
     update |-> "none"]       \* how the update settled

(* useState([]), useState(null), useState(null) *)
EmptyDashboard ==
    [mixes |-> <<>>, selectedMix |-> NoMix, streamingUrl |-> NoStreamingUrl,
     nPlays |-> 0, plays |-> [k \in Plays |-> EmptyPlay]]

-----------------------------------------------------------------------------
(* Specifications *)

Runs == 1..MaxRuns

InitWith(b, ls) ==
    /\ now = 0
    /\ pauses = 0
    /\ ledger = ls
    /\ objects = <<>>
    /\ selectedFile = NoFile
    /\ title = <<>>
    /\ user = SignedIn
    /\ status = "idle"
    /\ progress = Whole(0)
    /\ nRuns = 0
    /\ bound = b
    /\ runs = [r \in Runs |-> EmptyRun]
    /\ calls = NoCall
    /\ dashboard = EmptyDashboard

(* one invocation of handleUpload, files of up to MaxChunks chunks *)
Init ==
    InitWith([runs |-> 1, chunks |-> MaxChunks, failures |-> MaxFailures],
             <<>>)

(* several invocations of handleUpload, smaller files *)
InitModal ==
    InitWith([runs |-> MaxRuns, chunks |-> MaxModalChunks,
              failures |-> MaxModalFailures], <<>>)

(* the form: files of at most MaxFormChunks chunks *)
InitForm ==
    InitWith([runs |-> MaxFormRuns, chunks |-> MaxFormChunks,
              failures |-> MaxFormFailures], <<>>)

(* the indices of S in ascending order *)
RECURSIVE Ascending(_)
Ascending(S) ==
    IF S = {} THEN <<>>
    ELSE LET m == CHOOSE x \in S : \A y \in S : x <= y
         IN <<m>> \o Ascending(S \ {m})

(* uploadFile as a function of localStorage: one invocation, started when  *)
(* localStorage already holds a record under the key the upload will use.  *)
(* No run of the program leaves such a record (the key holds the time of   *)
(* the call); this is the only start from which the resume path runs.      *)
InitResume ==
    \E n \in 1..MaxChunks :
        \E S \in SUBSET (0..(n - 1)) \ {{}} :
            InitWith([runs |-> 1, chunks |-> MaxChunks,
                      failures |-> MaxResumeFailures],
                     saveUploadProgress(<<>>, <<FileOfChunks(n), 1>>,
                                        Ascending(S), n, 0))

(* what the program does once the user has chosen a file and clicked *)
Core ==
    \/ \E f \in FileSizes : SelectFile(f)
    \/ ClickUpload
    \/ \E r \in Runs, reply \in ListReplies : BucketChecked(r, reply)
    \/ \E r \in Runs : StartUpload(r)
    \/ \E r \in Runs, i \in 0..(MaxChunks - 1) : UploadOk(r, i)
    \/ \E r \in Runs, i \in 0..(MaxChunks - 1) : UploadFailed(r, i)
    \/ \E r \in Runs, i \in 0..(MaxChunks - 1) : BackoffElapsed(r, i)
    \/ \E r \in Runs : MoveOk(r)
    \/ \E r \in Runs : MoveFailed(r)
    \/ \E r \in Runs, outcome \in {"ok", "error", "rejected"} :
          RemoveSettled(r, outcome)
    \/ \E r \in Runs : DurationSettled(r)
    \/ \E r \in Runs, ok \in BOOLEAN : InsertSettled(r, ok)
    \/ \E r \in Runs : CloseTimer(r)

(* one upload, with the clock *)
Next == Core \/ LongPause

(* the modal, with every button *)
NextModal ==
    \/ Core
    \/ RemoveFile
    \/ ClearTitle
    \/ ClickRetry
    \/ handleRetry
    \/ handleCancel
    \/ resetForm

(* the form: the title typed, the session ending, and the buttons that    *)
(* are shown while no upload is running                                    *)
NextForm ==
    \/ Core
    \/ RemoveFile
    \/ \E t \in Titles : SetTitle(t)
    \/ SignOut
    \/ ClickRetry
    \/ handleRetry
    \/ resetForm

Spec == Init /\ [][Next]_vars

SpecForm == InitForm /\ [][NextForm]_vars

SpecModal == InitModal /\ [][NextModal]_vars

SpecResume == InitResume /\ [][Next]_vars

(* a storage upload or a backoff timer of some chunk is pending: the state *)
(* in which UploadOk, UploadFailed or BackoffElapsed can take a step       *)
UploadPending ==
    \E r \in Runs : \E i \in Chunks(r) :
        runs[r].chunks[i].st \in {"upload", "backoff"}

(* pending calls settle and timers fire: while the hashing of the file is  *)
(* pending it settles; while storage uploads or backoff timers are         *)
(* pending, one of them settles or fires; while a move or a removal is     *)
(* pending it settles. (That each of them settles implies this.) The       *)
(* second conjunct is weak fairness written out, WF_vars(A) being          *)
(* []<>~ENABLED <<A>>_vars \/ []<><<A>>_vars, with UploadPending for the   *)
(* enabling condition.                                                     *)
Settling ==
    /\ WF_vars(\E r \in Runs : StartUpload(r))
    /\ \/ []<>(~UploadPending)
       \/ []<><<\E r \in Runs, i \in 0..(MaxChunks - 1) :
                  UploadOk(r, i) \/ UploadFailed(r, i) \/ BackoffElapsed(r, i)>>_vars
    /\ WF_vars(\E r \in Runs :
                  \/ MoveOk(r)
                  \/ MoveFailed(r)
                  \/ \E outcome \in {"ok", "error", "rejected"} :
                        RemoveSettled(r, outcome))

SpecLive == Init /\ [][Next]_vars /\ Settling

-----------------------------------------------------------------------------
(* The ledger on its own: saveUploadProgress, getResumedChunks and         *)
(* localStorage.removeItem called in any order, at any time                *)

LedgerIds == {<<FileOfChunks(1), 1>>, <<FileOfChunks(2), 1>>}

(* the arrays a caller may pass: ascending, duplicates allowed *)
LedgerArrays ==
    {a \in UNION {[1..k -> 0..(MaxLedgerChunks - 1)] : k \in 0..(MaxLedgerChunks + 1)} :
        \A k \in 1..(Len(a) - 1) : a[k] <= a[k + 1]}

(* the clock steps: ages of exactly 24 h, of 1 ms less and of 1 ms more    *)
(* are all reached                                                         *)
ClockSteps == {1, ProgressTtlMs - 1, ProgressTtlMs}

(* what was last saved under each identity and not cleared since *)
Saved == IF calls.op = "none" THEN <<>> ELSE calls.saved

Tick(d) ==
    /\ pauses < MaxTicks
    /\ pauses' = pauses + 1
    /\ now' = now + d
    /\ calls' = [op |-> "tick", id |-> <<>>, result |-> <<>>,
                 saved |-> Saved]
    /\ UNCHANGED <<ledger, objects, selectedFile, title, status, progress,
                   nRuns, bound, dashboard, user, runs>>

CallSave(id, uploadedChunks) ==
    /\ ledger' = saveUploadProgress(ledger, id, uploadedChunks,
                                    MaxLedgerChunks, now)
    /\ calls' = [op |-> "save", id |-> id, result |-> <<>>,
                 saved |-> setItem(Saved, id,
                                   [uploadedChunks |-> uploadedChunks,
                                    at |-> now])]
    /\ UNCHANGED <<now, pauses, objects, selectedFile, title, status,
                   progress, nRuns, bound, dashboard, user, runs>>

CallLoad(id) ==
    /\ ledger' = getResumedChunksStore(ledger, id, now)
    /\ calls' = [op |-> "load", id |-> id,
                 result |-> getResumedChunks(ledger, id, now),
                 saved |-> Saved]
    /\ UNCHANGED <<now, pauses, objects, selectedFile, title, status,
                   progress, nRuns, bound, dashboard, user, runs>>

CallClear(id) ==
    /\ ledger' = removeItem(ledger, id)
    /\ calls' = [op |-> "clear", id |-> id, result |-> <<>>,
                 saved |-> removeItem(Saved, id)]
    /\ UNCHANGED <<now, pauses, objects, selectedFile, title, status,
                   progress, nRuns, bound, dashboard, user, runs>>

InitLedger ==
    InitWith([runs |-> 0, chunks |-> MaxLedgerChunks, failures |-> 0],
             <<>>)

NextLedger ==
    \/ \E d \in ClockSteps : Tick(d)
    \/ \E id \in LedgerIds, a \in LedgerArrays : CallSave(id, a)
    \/ \E id \in LedgerIds : CallLoad(id)
    \/ \E id \in LedgerIds : CallClear(id)

SpecLedger == InitLedger /\ [][NextLedger]_vars

-----------------------------------------------------------------------------
(* The chunk plan on its own: handleFileSelect's size check, uploadFile's  *)
(* totalChunks and uploadChunk's slice, for file sizes around the chunk    *)
(* boundaries                                                              *)

PlanOffsets == {-1, 0, 1, CHUNK_SIZE \div 4}

PlanSizes ==
    {f \in {k * CHUNK_SIZE + d : k \in 0..MaxPlanChunks, d \in PlanOffsets} :
        f >= 0}

CallPlan(f) ==
    /\ accepted(f)
    /\ calls' = [op |-> "plan", file |-> f, totalChunks |-> TotalChunks(f),
                 chunkIndex |-> -1, bytes |-> [from |-> 0, to |-> 0]]
    /\ UNCHANGED <<now, pauses, ledger, objects, selectedFile, title, status,
                   progress, nRuns, bound, dashboard, user, runs>>

CallSlice(f, chunkIndex) ==
    /\ accepted(f)
    /\ chunkIndex \in Range(chunkIndexes(TotalChunks(f), <<>>))
    /\ calls' = [op |-> "slice", file |-> f, totalChunks |-> TotalChunks(f),
                 chunkIndex |-> chunkIndex, bytes |-> ChunkBytes(chunkIndex, f)]
    /\ UNCHANGED <<now, pauses, ledger, objects, selectedFile, title, status,
                   progress, nRuns, bound, dashboard, user, runs>>

(* uploadFile's mapper calls for one file: uploadChunk once per index of   *)
(* chunkIndexes, each with its slice and its chunkPath                     *)
CallSlices(f) ==
    /\ accepted(f)
    /\ LET indexes == Range(chunkIndexes(TotalChunks(f), <<>>))
       IN calls' = [op |-> "slices", file |-> f,
                    totalChunks |-> TotalChunks(f),
                    bytes |-> [i \in indexes |-> ChunkBytes(i, f)],
                    chunkPath |-> [i \in indexes |-> PartPath(f, i)]]
    /\ UNCHANGED <<now, pauses, ledger, objects, selectedFile, title, status,
                   progress, nRuns, bound, dashboard, user, runs>>

InitPlan ==
    InitWith([runs |-> 0, chunks |-> MaxPlanChunks, failures |-> 0], <<>>)

NextPlan ==
    \/ \E f \in PlanSizes : CallPlan(f)
    \/ \E f \in PlanSizes, i \in 0..MaxPlanChunks :
          CallSlice(f, i)
    \/ \E f \in PlanSizes : CallSlices(f)

SpecPlan == InitPlan /\ [][NextPlan]_vars

-----------------------------------------------------------------------------
(* getStreamingUrl: one call after another, the probe and the signing      *)
(* answering in every way                                                  *)

Paths == {"", "a.mp3", "b.mp4", "user/c.wav"}

(* what the HEAD probe may answer: a status, or no response at all *)
ProbeThrew == -1

ProbeStatuses ==
    {199, 200, 201, 204, 206, 299, 300, 301, 304, 400, 401, 403, 404, 500, 503}

(* a variant of responseOk that takes every status below 400 as success *)
responseOkBelow400(st) == st >= 200 /\ st < 400

(* testResponse.ok: the status is in the range 200-299 *)
responseOk(st) == st >= 200 /\ st <= 299

publicUrl(path) == <<"public", path, 0>>

signedUrl(path, ttl) == <<"signed", path, ttl>>

NoUrl == <<"null", "", 0>>

(* what createSignedUrl may resolve with: { data, error }, where data is   *)
(* null or holds signedUrl, a URL or an empty string; or it rejects        *)
NoReply == [error |-> "none", data |-> "none", rejected |-> FALSE]

SignReplies ==
    [error : {"none", "signError"}, data : {"url", "empty", "null"},
     rejected : {FALSE}]
        \cup {[error |-> "none", data |-> "null", rejected |-> TRUE]}

UrlCall(path) ==
    [op |-> "url", path |-> path, pc |-> "probe", probe |-> 0,
     signTtl |-> -1, sign |-> NoReply, outcome |-> "pending",
     value |-> NoUrl, error |-> "none"]

(* a variant of CallGetStreamingUrl without the test of the path *)
CallGetStreamingUrlAnyPath(path) ==
    /\ IF calls.op = "none" THEN TRUE ELSE calls.pc = "done"
    /\ calls' = UrlCall(path)
    /\ UNCHANGED <<now, pauses, ledger, objects, selectedFile, title, status,
                   progress, nRuns, bound, dashboard, user, runs>>

(* getStreamingUrl is called: an empty path returns null at once *)
CallGetStreamingUrl(path) ==
    /\ IF calls.op = "none" THEN TRUE ELSE calls.pc = "done"
    /\ calls' = IF path = ""
                THEN [UrlCall(path) EXCEPT !.pc = "done",
                                           !.outcome = "returned"]
                ELSE UrlCall(path)
    /\ UNCHANGED <<now, pauses, ledger, objects, selectedFile, title, status,
                   progress, nRuns, bound, dashboard, user, runs>>

(* the HEAD probe of the public URL settles *)
ProbeSettled(st) ==
    /\ calls.op = "url"
    /\ calls.pc = "probe"
    /\ calls' = IF st # ProbeThrew /\ responseOk(st)
                THEN [calls EXCEPT !.probe = st, !.pc = "done",
                                   !.outcome = "returned",
                                   !.value = publicUrl(calls.path)]
                ELSE [calls EXCEPT !.probe = st, !.pc = "sign",
                                   !.signTtl = SIGNED_URL_TTL]
    /\ UNCHANGED <<now, pauses, ledger, objects, selectedFile, title, status,
                   progress, nRuns, bound, dashboard, user, runs>>

(* a variant of afterSign without the check of data.signedUrl *)
afterSignUnchecked(call, reply) ==
    IF reply.rejected
    THEN [call EXCEPT !.pc = "done", !.sign = reply, !.outcome = "threw",
                      !.error = "rejected"]
    ELSE IF reply.error # "none"
    THEN [call EXCEPT !.pc = "done", !.sign = reply, !.outcome = "threw",
                      !.error = reply.error]
    ELSE [call EXCEPT !.pc = "done", !.sign = reply, !.outcome = "returned",
                      !.value = IF reply.data = "url"
                                THEN signedUrl(call.path, call.signTtl)
                                ELSE NoUrl]

(* getStreamingUrl after `await createSignedUrl(...)`: a rejection goes to *)
(* the outer catch, which rethrows; if (error) throw error;                *)
(* if (!data?.signedUrl) throw new Error(...); return data.signedUrl       *)
afterSign(call, reply) ==
    IF reply.rejected
    THEN [call EXCEPT !.pc = "done", !.sign = reply, !.outcome = "threw",
                      !.error = "rejected"]
    ELSE IF reply.error # "none"
    THEN [call EXCEPT !.pc = "done", !.sign = reply, !.outcome = "threw",
                      !.error = reply.error]
    ELSE IF reply.data # "url"
    THEN [call EXCEPT !.pc = "done", !.sign = reply, !.outcome = "threw",
                      !.error = "noSignedUrl"]
    ELSE [call EXCEPT !.pc = "done", !.sign = reply, !.outcome = "returned",
                      !.value = signedUrl(call.path, call.signTtl)]

(* createSignedUrl settles *)
SignSettled(reply) ==
    /\ calls.op = "url"
    /\ calls.pc = "sign"
    /\ calls' = afterSign(calls, reply)
    /\ UNCHANGED <<now, pauses, ledger, objects, selectedFile, title, status,
                   progress, nRuns, bound, dashboard, user, runs>>

InitUrl == InitWith([runs |-> 0, chunks |-> 0, failures |-> 0], <<>>)

NextUrl ==
    \/ \E path \in Paths : CallGetStreamingUrl(path)
    \/ \E st \in ProbeStatuses \cup {ProbeThrew} : ProbeSettled(st)
    \/ \E reply \in SignReplies : SignSettled(reply)

SpecUrl == InitUrl /\ [][NextUrl]_vars

-----------------------------------------------------------------------------
(* The Dashboard's player: fetchMixes, then handlePlayMix for any mix, the  *)
(* invocations overlapping in any way                                      *)

(* the catalogs fetchMixes may load: a mix with a path, and one whose path *)
(* is empty                                                                *)
Catalogs ==
    {[id \in {1, 2} |-> [id |-> id,
                         file_path |-> IF id = 1 THEN "a.mp3" ELSE "",
                         play_count |-> c]] : c \in {0, 7}}

(* how getStreamingUrl may settle for a path: null for the empty path;     *)
(* otherwise the public URL, a signed URL, or an exception                 *)
getStreamingUrlResults(path) ==
    IF path = ""
    THEN {[outcome |-> "returned", value |-> NoUrl]}
    ELSE {[outcome |-> "returned", value |-> publicUrl(path)],
          [outcome |-> "returned", value |-> signedUrl(path, SIGNED_URL_TTL)],
          [outcome |-> "threw", value |-> NoUrl]}

(* fetchMixes: setMixes(data) *)
MixesFetched(data) ==
    /\ dashboard.mixes = <<>>
    /\ dashboard' = [dashboard EXCEPT !.mixes = data]
    /\ UNCHANGED <<now, pauses, ledger, objects, selectedFile, title, status,
                   progress, nRuns, bound, user, runs, calls>>

(* handlePlayMix(mix) up to `await getStreamingUrl(mix.file_path)` *)
handlePlayMix(m) ==
    /\ m \in DOMAIN dashboard.mixes
    /\ dashboard.nPlays < MaxPlays
    /\ dashboard' = [dashboard EXCEPT
                        !.nPlays = @ + 1,
                        !.plays[dashboard.nPlays + 1] =
                            [EmptyPlay EXCEPT !.pc = "url",
                                              !.mix = dashboard.mixes[m]]]
    /\ UNCHANGED <<now, pauses, ledger, objects, selectedFile, title, status,
                   progress, nRuns, bound, user, runs, calls>>

(* a variant of afterUrl without the test of the URL *)
afterUrlUntested(d, k, result) ==
    IF result.outcome = "threw"
    THEN [d EXCEPT !.plays[k].pc = "done", !.plays[k].url = result]
    ELSE [d EXCEPT !.selectedMix = d.plays[k].mix,
                   !.streamingUrl = result.value,
                   !.plays[k].pc = "update",
                   !.plays[k].url = result,
                   !.plays[k].updateIssued = TRUE,
                   !.plays[k].updateValue = d.plays[k].mix.play_count + 1]

(* handlePlayMix after the await: an exception goes to the catch (toast);  *)
(* if (url) { setSelectedMix(mix); setStreamingUrl(url); the update of     *)
(* play_count to mix.play_count + 1 is sent }                              *)
afterUrl(d, k, result) ==
    IF result.outcome = "threw"
    THEN [d EXCEPT !.plays[k].pc = "done", !.plays[k].url = result]
    ELSE IF result.value # NoUrl
    THEN [d EXCEPT !.selectedMix = d.plays[k].mix,
                   !.streamingUrl = result.value,
                   !.plays[k].pc = "update",
                   !.plays[k].url = result,
                   !.plays[k].updateIssued = TRUE,
                   !.plays[k].updateValue = d.plays[k].mix.play_count + 1]
    ELSE [d EXCEPT !.plays[k].pc = "done", !.plays[k].url = result]

(* getStreamingUrl settles for invocation k *)
UrlSettled(k, result) ==
    /\ k \in 1..dashboard.nPlays
    /\ dashboard.plays[k].pc = "url"
    /\ result \in getStreamingUrlResults(dashboard.plays[k].mix.file_path)
    /\ dashboard' = afterUrl(dashboard, k, result)
    /\ UNCHANGED <<now, pauses, ledger, objects, selectedFile, title, status,
                   progress, nRuns, bound, user, runs, calls>>

(* the update settles: an error is logged; without one, setMixes adds 1 to *)
(* the play_count of the mix in the list; a rejection goes to the catch    *)
UpdateSettled(k, outcome) ==
    /\ k \in 1..dashboard.nPlays
    /\ dashboard.plays[k].pc = "update"
    /\ outcome \in {"ok", "error", "rejected"}
    /\ LET id == dashboard.plays[k].mix.id
           settled == [dashboard EXCEPT !.plays[k].pc = "done",
                                        !.plays[k].update = outcome]
       IN dashboard' =
            IF outcome = "ok"
            THEN [settled EXCEPT
                    !.mixes = [m \in DOMAIN @ |->
                                 IF @[m].id = id
                                 THEN [@[m] EXCEPT !.play_count = @ + 1]
                                 ELSE @[m]]]
            ELSE settled
    /\ UNCHANGED <<now, pauses, ledger, objects, selectedFile, title, status,
                   progress, nRuns, bound, user, runs, calls>>

InitPlay == InitWith([runs |-> 0, chunks |-> 0, failures |-> 0], <<>>)

NextPlay ==
    \/ \E data \in Catalogs : MixesFetched(data)
    \/ \E m \in {1, 2} : handlePlayMix(m)
    \/ \E k \in Plays, path \in {"", "a.mp3"} :
          \E result \in getStreamingUrlResults(path) : UrlSettled(k, result)
    \/ \E k \in Plays, outcome \in {"ok", "error", "rejected"} :
          UpdateSettled(k, outcome)

SpecPlay == InitPlay /\ [][NextPlay]_vars

-----------------------------------------------------------------------------
(* Properties *)

Planned(r) == Started(r) /\ runs[r].pc \notin {"idle", "bucket", "hash"}
                         /\ runs[r].result.state # "notCalled"

WithState(r, st) == {i \in Chunks(r) : runs[r].chunks[i].st = st}

Pending(r) == WithState(r, "pending")

NonDecreasing(s) == \A k \in 1..(Len(s) - 1) : FracLeq(s[k], s[k + 1])

(* C1: in every state at most 3 chunk uploads of one uploadFile run are in *)
(* flight (storage call pending or waiting in a retry backoff), however    *)
(* many chunks are pending.                                                *)
C1_AtMostThreeInFlight ==
    \A r \in Runs : Cardinality(InFlight(r)) <= 3

(* three in flight, one of them in a backoff, and a chunk still waiting *)
C1_Witness ==
    \E r \in Runs :
        /\ Cardinality(InFlight(r)) = 3
        /\ WithState(r, "backoff") # {}
        /\ Pending(r) # {}

(* C2: every write of the ledger record by an upload stores every index    *)
(* that the record held before the write and every index of a chunk that   *)
(* upload completed earlier: the stored set grows by union and shrinks     *)
(* only when the record is removed.                                        *)
C2_WriteKeeps ==
    \A r \in Runs :
        Planned(r) =>
            LET id == runs[r].uploadId
                before == IF id \in DOMAIN ledger
                          THEN Range(ledger[id].uploadedChunks) ELSE {}
            IN (id \in DOMAIN ledger') =>
                   (before \cup WithState(r, "ok") \cup Range(runs[r].loaded))
                       \subseteq Range(ledger'[id].uploadedChunks)

(* C2: every step keeps, in the ledger record of an upload, the indices   *)
(* the record held and the indices of the chunks the upload completed.     *)
C2_LedgerNeverDrops == [][C2_WriteKeeps]_vars

(* two chunks are recorded while a third one is still in flight *)
C2_Witness ==
    \E r \in Runs :
        /\ runs[r].uploadId \in DOMAIN ledger
        /\ Len(ledger[runs[r].uploadId].uploadedChunks) >= 2
        /\ InFlight(r) # {}

(* C3: once a chunk has exhausted its retries, no chunk that was waiting   *)
(* is dispatched; the chunks in flight go on.                              *)
C3_NoDispatch ==
    \A r \in Runs :
        runs[r].isRejected => Pending(r) \subseteq {i \in Chunks(r) :
                                                     runs'[r].chunks[i].st = "pending"}

(* C3: no step dispatches a waiting chunk of an upload whose pMap has     *)
(* rejected.                                                               *)
C3_NoDispatchAfterFatal == [][C3_NoDispatch]_vars

(* after the fatal failure a chunk that was in flight has completed, and   *)
(* a chunk is still waiting                                                *)
C3_Witness ==
    \E r \in Runs :
        /\ runs[r].isRejected
        /\ Pending(r) # {}
        /\ \E i \in WithState(r, "failed"), j \in WithState(r, "ok") : i < j

(* C4 as claimed: whenever a chunk has failed on all 3 attempts, it threw *)
(* the error of its last attempt, uploadFile rejected with that very       *)
(* error, completeUpload was not invoked and 100 was not reported.         *)
C4_EveryFatalErrorSurfaces ==
    \A r \in Runs : \A i \in WithState(r, "failed") :
        /\ runs[r].chunks[i].lastError = UploadError(i, 3)
        /\ runs[r].result = [state |-> "rejected",
                             error |-> runs[r].chunks[i].lastError]
        /\ ~runs[r].completeCalled
        /\ Whole(100) \notin Range(runs[r].reports)

C4_Fatal ==
    \A r \in Runs : \A i \in WithState(r, "failed") :
        /\ runs[r].chunks[i].lastError = UploadError(i, 3)
        /\ runs[r].result.state = "rejected"
        /\ runs[r].result.error \in
              {runs[r].chunks[j].lastError : j \in WithState(r, "failed")}
        /\ ~runs[r].completeCalled
        /\ Whole(100) \notin Range(runs[r].reports)

C4_FirstStays ==
    \A r \in Runs :
        runs[r].result.state = "rejected" => runs'[r].result = runs[r].result

(* C4, amended: whenever a chunk has failed on all 3 attempts, it threw    *)
(* the error of its last attempt, uploadFile has rejected with the last    *)
(* error of the first chunk to exhaust its retries (the rejection never    *)
(* changes afterwards), completeUpload was not invoked and 100 was not     *)
(* reported.                                                               *)
C4_FirstFatalErrorSurfaces == []C4_Fatal /\ [][C4_FirstStays]_vars

(* two chunks of one upload have exhausted their retries *)
C4_Witness ==
    \E r \in Runs : Cardinality(WithState(r, "failed")) >= 2

(* C5 as claimed: a chunk that succeeded on its third attempt waited       *)
(* 1000 ms before the second attempt and 2000 ms before the third.         *)
C5_DelaysOneThenTwoSeconds ==
    \A r \in Runs : \A i \in WithState(r, "ok") :
        runs[r].chunks[i].attempt = 3 =>
            runs[r].chunks[i].delays = <<1000, 2000>>

(* C6: uploadFile rejects with an upload error only when some chunk has    *)
(* failed on all 3 attempts, and with a move error only when the move      *)
(* failed; when every chunk has succeeded and the move has succeeded,      *)
(* uploadFile has resolved or is waiting for the removal of the leftover   *)
(* parts, and handleUpload has not entered its catch because of it.        *)
C6_TransientFailuresContained ==
    \A r \in Runs :
        Planned(r) =>
            /\ (runs[r].result.state = "rejected"
                    /\ runs[r].result.error.op = "upload") =>
                  \E i \in WithState(r, "failed") : runs[r].chunks[i].attempt = 3
            /\ (runs[r].result.state = "rejected"
                    /\ runs[r].result.error.op = "move") =>
                  FinalPath(r) \notin DOMAIN objects
            /\ (WithState(r, "ok") = Chunks(r) /\ FinalPath(r) \in DOMAIN objects) =>
                  \/ runs[r].pc = "remove" /\ runs[r].result.state = "pending"
                  \/ runs[r].result.state = "resolved"
            /\ runs[r].result.state = "resolved" =>
                  runs[r].pc \in {"duration", "insert", "done", "closed", "error"}
            /\ (runs[r].pc = "error" /\ runs[r].result.state = "resolved") =>
                  FinalPath(r) \in DOMAIN objects

(* an upload has resolved although two of its chunks needed all 3 attempts *)
C6_Witness ==
    \E r \in Runs :
        /\ runs[r].result.state = "resolved"
        /\ Cardinality({i \in WithState(r, "ok") : runs[r].chunks[i].attempt = 3}) >= 2

(* C7: uploadFile dispatches exactly the indices of [0, totalChunks) that  *)
(* the ledger did not list at its start: a listed chunk is never uploaded, *)
(* the chunks dispatched so far are the first ones of the unlisted, and    *)
(* without a fatal failure none is left waiting once nothing is in flight. *)
C7_DispatchesExactlyUnlisted ==
    \A r \in Runs :
        Planned(r) =>
            LET listed == Range(runs[r].loaded)
                all == 0..(runs[r].totalChunks - 1)
                dispatched == {i \in Chunks(r) :
                                  runs[r].chunks[i].st \notin {"pending", "skipped"}}
            IN /\ Range(runs[r].queue) = all \ listed
               /\ dispatched = {runs[r].queue[k] : k \in 1..runs[r].currentIndex}
               /\ \A i \in all \cap listed :
                     /\ runs[r].chunks[i].st = "skipped"
                     /\ runs[r].chunks[i].attempt = 0
                     /\ PartPath(r, i) \notin DOMAIN objects
               /\ runs[r].settled = "resolved" => WithState(r, "ok") = all \ listed
               /\ (~runs[r].isRejected /\ InFlight(r) = {}) => Pending(r) = {}

(* the ledger listed chunks 0 and 2 of 4; chunks 1 and 3 were uploaded *)
C7_Witness ==
    \E r \in Runs :
        /\ runs[r].loaded = <<0, 2>>
        /\ runs[r].totalChunks = 4
        /\ WithState(r, "ok") = {1, 3}
        /\ runs[r].settled = "resolved"

(* C8 as claimed: an upload started by a retry after a fatal chunk failure *)
(* of the same file has the identity of the failed upload, and skips the   *)
(* chunks that the failed upload had completed.                            *)
C8_RetryKeepsIdentity ==
    \A r \in Runs :
        (/\ r >= 2
         /\ Planned(r)
         /\ runs[r].retry
         /\ runs[r - 1].result.error.op = "upload"
         /\ runs[r].file = runs[r - 1].file) =>
            /\ runs[r].uploadId = runs[r - 1].uploadId
            /\ \A i \in Range(runs[r - 1].uploadedChunks) :
                  runs[r].chunks[i].st = "skipped"

(* C9 as claimed: the progress values one uploadFile run passes to its     *)
(* caller never decrease.                                                  *)
C9_ProgressNonDecreasing ==
    \A r \in Runs : NonDecreasing(runs[r].reports)

(* C10: uploadFile reports 100 only as its last value, after               *)
(* completeUpload has moved the object and returned; every other value it  *)
(* reports is at most 95; the modal shows 100 only with status success,    *)
(* and at most 95 otherwise.                                               *)
C10_HundredOnlyAfterFinalize ==
    /\ \A r \in Runs : \A k \in 1..Len(runs[r].reports) :
          IF runs[r].reports[k] = Whole(100)
          THEN /\ k = Len(runs[r].reports)
               /\ runs[r].result.state = "resolved"
               /\ FinalPath(r) \in DOMAIN objects
          ELSE FracLeq(runs[r].reports[k], Whole(95))
    /\ progress = Whole(100) => status = "success"
    /\ progress # Whole(100) => FracLeq(progress, Whole(95))

(* the last chunk reported 95, then completeUpload returned: 100, success *)
C10_Witness ==
    \E r \in Runs :
        /\ Len(runs[r].reports) >= 3
        /\ runs[r].reports[Len(runs[r].reports)] = Whole(100)
        /\ runs[r].reports[Len(runs[r].reports) - 1] = Whole(95)
        /\ status = "success"
        /\ progress = Whole(100)

(* C11: completeUpload has been invoked only when every chunk index of     *)
(* [0, totalChunks) has completed: its upload succeeded in this run or the *)
(* ledger listed it at the start; none is waiting or in flight then.       *)
C11_FinalizeAfterAllChunks ==
    \A r \in Runs :
        runs[r].completeCalled =>
            /\ Chunks(r) = 0..(runs[r].totalChunks - 1)
            /\ \A i \in Chunks(r) :
                  \/ runs[r].chunks[i].st = "ok" /\ i \notin Range(runs[r].loaded)
                  \/ runs[r].chunks[i].st = "skipped" /\ i \in Range(runs[r].loaded)
            /\ InFlight(r) = {}
            /\ Pending(r) = {}

(* completeUpload was invoked for an upload that skipped a listed chunk    *)
(* and needed a retry for another                                          *)
C11_Witness ==
    \E r \in Runs :
        /\ runs[r].completeCalled
        /\ WithState(r, "skipped") # {}
        /\ \E i \in WithState(r, "ok") : runs[r].chunks[i].attempt >= 2

(* C12: once uploadFile has resolved for a file of N chunks, the object    *)
(* uploaded as part0 is at the final path and no longer at part0, removal  *)
(* was requested for exactly part1 .. part(N-1) (for nothing when N = 1),  *)
(* and the ledger holds no record for the upload identity.                 *)
C12_SuccessfulUploadEndState ==
    \A r \in Runs :
        runs[r].result.state = "resolved" =>
            LET N == TotalChunks(runs[r].file)
            IN /\ runs[r].totalChunks = N
               /\ FinalPath(r) \in DOMAIN objects
               /\ objects[FinalPath(r)] = ChunkBytes(0, runs[r].file)
               /\ PartPath(r, 0) \notin DOMAIN objects
               /\ runs[r].removeRequested = {PartPath(r, i) : i \in 1..(N - 1)}
               /\ runs[r].uploadId \notin DOMAIN ledger

(* a 45 MiB file was uploaded as 3 chunks of 20, 20 and 5 MiB; part1 and   *)
(* part2 were removed                                                      *)
C12_Witness ==
    \E r \in Runs :
        /\ runs[r].result.state = "resolved"
        /\ runs[r].file = 45 * 1024 * 1024
        /\ runs[r].totalChunks = 3
        /\ ChunkBytes(1, runs[r].file).to - ChunkBytes(1, runs[r].file).from
              = 20 * 1024 * 1024
        /\ ChunkBytes(2, runs[r].file).to - ChunkBytes(2, runs[r].file).from
              = 5 * 1024 * 1024
        /\ runs[r].removeRequested = {PartPath(r, 1), PartPath(r, 2)}
        /\ DOMAIN objects = {FinalPath(r)}

C14_CleanupIsBestEffort ==
    \A r \in Runs :
        runs[r].removeOutcome \in {"error", "rejected"} =>
            /\ runs[r].result = [state |-> "resolved", error |-> NoError]
            /\ runs[r].uploadId \notin DOMAIN ledger
            /\ runs[r].reports # <<>>
            /\ runs[r].reports[Len(runs[r].reports)] = Whole(100)
            /\ runs[r].pc \in {"duration", "insert", "done", "closed", "error"}
            /\ runs[r].pc = "error" => FinalPath(r) \in DOMAIN objects

(* the removal promise rejected, the leftover parts are still there, and   *)
(* handleUpload went on to insert the mix                                  *)
C14_Witness ==
    \E r \in Runs :
        /\ runs[r].removeOutcome = "rejected"
        /\ runs[r].removeRequested # {}
        /\ runs[r].removeRequested \subseteq DOMAIN objects
        /\ runs[r].pc = "done"

(* C15: when the move of part0 has failed, uploadFile has rejected with    *)
(* the error of the move, no removal of part paths was issued, 100 was not *)
(* reported, and the ledger record of the upload is left as it was: the    *)
(* failing step does not touch it, and it lists every chunk.               *)
C15_MoveFailedState ==
    \A r \in Runs :
        (runs[r].result.state = "rejected" /\ runs[r].result.error.op = "move") =>
            /\ runs[r].result.error = MoveError
            /\ runs[r].completeCalled
            /\ runs[r].removeRequested = {}
            /\ runs[r].removeOutcome = "none"
            /\ Whole(100) \notin Range(runs[r].reports)
            /\ FinalPath(r) \notin DOMAIN objects
            /\ runs[r].totalChunks >= 1 =>
                  /\ runs[r].uploadId \in DOMAIN ledger
                  /\ Range(ledger[runs[r].uploadId].uploadedChunks) = Chunks(r)

C15_MoveFailedStep ==
    \A r \in Runs :
        (runs[r].pc = "move" /\ runs'[r].pc = "error") =>
            /\ ledger' = ledger
            /\ objects' = objects
            /\ runs'[r].result = [state |-> "rejected", error |-> MoveError]

(* C15: the state after a failed move is always as described, and the     *)
(* step in which the move fails changes neither the ledger nor the bucket. *)
C15_MoveFailureLeavesLedger == []C15_MoveFailedState /\ [][C15_MoveFailedStep]_vars

(* all 3 chunks of a file are uploaded and recorded, then the move failed *)
C15_Witness ==
    \E r \in Runs :
        /\ runs[r].result = [state |-> "rejected", error |-> MoveError]
        /\ runs[r].totalChunks = 3
        /\ runs[r].uploadId \in DOMAIN ledger
        /\ Len(ledger[runs[r].uploadId].uploadedChunks) = 3
        /\ PartPath(r, 0) \in DOMAIN objects

(* C16: a getResumedChunks call returns the empty array and deletes the    *)
(* record exactly when a record exists with now - timestamp > 24 h; for a  *)
(* record aged 24 h or less it returns the stored indices and leaves       *)
(* localStorage unchanged; for an absent record it returns the empty array *)
(* and leaves localStorage unchanged.                                      *)
C16_Load ==
    calls'.op = "load" =>
        LET id == calls'.id
            present == id \in DOMAIN ledger
            age == now - ledger[id].timestamp
            deleted == present /\ id \notin DOMAIN ledger'
        IN /\ (present /\ age > 24 * 60 * 60 * 1000) =>
                 /\ calls'.result = <<>>
                 /\ deleted
                 /\ DOMAIN ledger' = DOMAIN ledger \ {id}
                 /\ \A k \in DOMAIN ledger' : ledger'[k] = ledger[k]
           /\ (present /\ age <= 24 * 60 * 60 * 1000) =>
                 /\ calls'.result = ledger[id].uploadedChunks
                 /\ ledger' = ledger
           /\ ~present =>
                 /\ calls'.result = <<>>
                 /\ ledger' = ledger
           /\ (calls'.result = <<>> /\ deleted)
                 <=> (present /\ age > 24 * 60 * 60 * 1000)

(* C16: every getResumedChunks step expires a record exactly when it is   *)
(* more than 24 hours old.                                                 *)
C16_LoadExpiresStrictlyAfter24h == [][C16_Load]_vars

(* a record saved exactly 24 hours ago was loaded: its indices were        *)
(* returned and it is still stored                                         *)
C16_Witness ==
    /\ calls.op = "load"
    /\ calls.id \in DOMAIN ledger
    /\ now - ledger[calls.id].timestamp = 24 * 60 * 60 * 1000
    /\ calls.result = <<0>>

(* C17: a load of an identity at most 24 hours after the last save for it  *)
(* (with no clear in between) returns exactly the set of indices that save *)
(* was given, each once; a save stamps the record with the current time;   *)
(* a load of an identity never saved, or cleared since, returns the empty  *)
(* array.                                                                  *)
C17_LedgerRoundTrip ==
    /\ calls.op = "load" =>
          LET id == calls.id
          IN /\ (id \in DOMAIN calls.saved
                    /\ now - calls.saved[id].at <= 24 * 60 * 60 * 1000) =>
                   /\ Range(calls.result) = Range(calls.saved[id].uploadedChunks)
                   /\ Len(calls.result) = Cardinality(Range(calls.result))
             /\ id \notin DOMAIN calls.saved => calls.result = <<>>
    /\ calls.op = "save" =>
          /\ calls.id \in DOMAIN ledger
          /\ ledger[calls.id].timestamp = now
          /\ ledger[calls.id].totalChunks = MaxLedgerChunks
          /\ Range(ledger[calls.id].uploadedChunks)
                = Range(calls.saved[calls.id].uploadedChunks)
    /\ calls.op = "clear" => calls.id \notin DOMAIN ledger

(* a save made 1 ms before the clock read 24 h, with a duplicate index, is *)
(* loaded exactly 24 hours later: index 0 is returned once                 *)
C17_Witness ==
    /\ calls.op = "load"
    /\ calls.id \in DOMAIN calls.saved
    /\ calls.saved[calls.id].uploadedChunks = <<0, 0>>
    /\ calls.saved[calls.id].at = 24 * 60 * 60 * 1000 - 1
    /\ now = 2 * 24 * 60 * 60 * 1000 - 1
    /\ calls.result = <<0>>

(* C18: for every file size F, totalChunks is ceil(F / 20 MiB), the least  *)
(* n with n * 20 MiB >= F; and the byte range of chunk 0 starts at 0.      *)
C18_TotalChunksIsCeiling ==
    calls.op \in {"plan", "slice"} =>
        /\ calls.totalChunks >= 0
        /\ calls.totalChunks * (20 * 1024 * 1024) >= calls.file
        /\ (calls.totalChunks - 1) * (20 * 1024 * 1024) < calls.file
        /\ (calls.op = "slice" /\ calls.chunkIndex = 0) => calls.bytes.from = 0

(* a file one byte longer than a chunk: 2 chunks, chunk 0 is [0, 20 MiB) *)
C18_Witness ==
    /\ calls.op = "slice"
    /\ calls.file = 20 * 1024 * 1024 + 1
    /\ calls.totalChunks = 2
    /\ calls.chunkIndex = 0
    /\ calls.bytes = [from |-> 0, to |-> 20 * 1024 * 1024]

(* C19 as claimed: every upload of an accepted file plans at least one     *)
(* chunk, and chunk 0 has been uploaded when completeUpload is invoked.    *)
C19_AtLeastOneChunk ==
    \A r \in Runs :
        Planned(r) =>
            /\ accepted(runs[r].file)
            /\ runs[r].totalChunks >= 1
            /\ runs[r].completeCalled => 0 \in WithState(r, "ok")

(* C20: for a non-empty path, getStreamingUrl has returned the public URL  *)
(* exactly when the HEAD probe answered with a status in 200..299, and     *)
(* then no signed URL was requested; when the probe answered with another  *)
(* status or threw, a signed URL was requested with TTL 86400 s, the value *)
(* returned (if the signing gave one) is that signed URL, and an error     *)
(* thrown is the signing's, never the probe's.                             *)
C20_PublicIffProbeOk ==
    (calls.op = "url" /\ calls.path # "") =>
        LET probed == calls.probe # 0
            ok == calls.probe \in 200..299
        IN /\ (calls.outcome = "returned" /\ calls.value[1] = "public") <=> ok
           /\ ok => /\ calls.value = <<"public", calls.path, 0>>
                    /\ calls.signTtl = -1
                    /\ calls.pc = "done"
           /\ (probed /\ ~ok) =>
                 /\ calls.signTtl = 86400
                 /\ calls.outcome = "returned" =>
                       calls.value = <<"signed", calls.path, 86400>>
                 /\ calls.outcome = "threw" =>
                       calls.error \in {"signError", "noSignedUrl", "rejected"}
           /\ ~probed => calls.outcome = "pending" /\ calls.signTtl = -1

(* the probe threw, and the signed URL was returned *)
C20_Witness ==
    /\ calls.op = "url"
    /\ calls.probe = ProbeThrew
    /\ calls.outcome = "returned"
    /\ calls.value = <<"signed", "a.mp3", 86400>>

(* C21: when the probe did not succeed and createSignedUrl has answered    *)
(* with an error, or without a signed URL, or has rejected,                *)
(* getStreamingUrl has thrown: it has returned nothing, neither the public *)
(* URL nor null nor an empty URL.                                          *)
C21_SigningFailurePropagates ==
    (calls.op = "url" /\ calls.sign # NoReply) =>
        LET failed == \/ calls.sign.rejected
                      \/ calls.sign.error # "none"
                      \/ calls.sign.data # "url"
        IN /\ calls.probe \notin 200..299
           /\ calls.probe # 0
           /\ failed => /\ calls.outcome = "threw"
                        /\ calls.error # "none"
                        /\ calls.value = NoUrl
           /\ calls.sign.error # "none" => calls.error = calls.sign.error
           /\ ~failed => /\ calls.outcome = "returned"
                         /\ calls.value = <<"signed", calls.path, 86400>>

(* the probe answered 404 and createSignedUrl resolved without error but   *)
(* with an empty signedUrl: the call threw                                 *)
C21_Witness ==
    /\ calls.op = "url"
    /\ calls.probe = 404
    /\ calls.sign = [error |-> "none", data |-> "empty", rejected |-> FALSE]
    /\ calls.outcome = "threw"
    /\ calls.error = "noSignedUrl"

(* the chunks of invocation r, in state rs of the invocations, for which   *)
(* uploadChunk has been called                                             *)
C22_Dispatched(rs, r) ==
    {i \in DOMAIN rs[r].chunks :
        rs[r].chunks[i].st \in {"upload", "backoff", "ok", "failed"}}

(* C22 as claimed: once the user has cancelled a running upload, no chunk  *)
(* of that upload is dispatched. While the first invocation is the only    *)
(* one and has neither failed nor finished, the status is idle only after  *)
(* handleCancel.                                                           *)
C22_NoDispatchAfterCancel ==
    [][(/\ nRuns = 1
        /\ runs[1].pc \in {"bucket", "hash", "map"}
        /\ status = "idle") =>
            C22_Dispatched(runs', 1) \subseteq C22_Dispatched(runs, 1)]_vars

(* C23 as claimed: with the status error shown, and no click by the user,  *)
(* the status stays error and the progress value stays as it is, whatever  *)
(* the chunks still in flight do.                                          *)
C23_ErrorStateFrozen ==
    [][status = "error" => (status' = "error" /\ progress' = progress)]_vars

(* handleUpload's precondition fails: no file, no user, or a blank title *)
C24_Rejecting == selectedFile = NoFile \/ user = NoUser \/ trim(title) = <<>>

(* C24: a click that invokes handleUpload without a file, without a user   *)
(* or with a blank title sets the status to error and the progress to 0,   *)
(* and starts nothing: no invocation is added, and no invocation, no       *)
(* object and no ledger record changes. Every invocation that got past the *)
(* precondition has a file, a user and a title that is not blank.          *)
C24_PreconditionRejects ==
    /\ [](\A r \in Runs : Started(r) =>
            /\ runs[r].file # NoFile
            /\ runs[r].user # NoUser
            /\ runs[r].title # <<>>
            /\ runs[r].title = trim(runs[r].title))
    /\ [][((ClickUpload \/ ClickRetry) /\ C24_Rejecting) =>
            /\ status' = "error"
            /\ progress' = Whole(0)
            /\ UNCHANGED <<nRuns, runs, objects, ledger, now>>]_vars

(* Upload Mix was clicked without a user: the status is error, and nothing *)
(* was ever started                                                        *)
C24_Witness ==
    /\ status = "error"
    /\ progress = Whole(0)
    /\ user = NoUser
    /\ selectedFile # NoFile
    /\ trim(title) # <<>>
    /\ nRuns = 0
    /\ objects = <<>>

(* C25 as claimed: in an upload of N chunks that found no ledger record at *)
(* its start, the k-th chunk to complete reports 95 * k / N; the value is  *)
(* above 0 and at most 95, and the last of the N chunks reports 95.        *)
C25_KthChunkReportsKOverN ==
    \A r \in Runs :
        (Planned(r) /\ runs[r].loaded = <<>>) =>
            \A k \in 1..Len(runs[r].reports) :
                runs[r].reports[k] # Whole(100) =>
                    /\ runs[r].reports[k] = Frac(95 * k, runs[r].totalChunks)
                    /\ FracLess(Whole(0), runs[r].reports[k])
                    /\ FracLeq(runs[r].reports[k], Whole(95))
                    /\ k = runs[r].totalChunks =>
                          runs[r].reports[k] = Whole(95)

(* what one step may do to the uploadChunk of one chunk, c before and d    *)
(* after: nothing once it has returned, thrown or been skipped; otherwise  *)
(* at most one more attempt, the first on dispatch and a later one out of  *)
(* a backoff; a dispatched chunk is not pending again                      *)
C26_ChunkStep(c, d) ==
    /\ c.st \in {"ok", "failed", "skipped"} => d = c
    /\ d.attempt \in {c.attempt, c.attempt + 1}
    /\ d.attempt = c.attempt + 1 =>
          /\ d.st = "upload"
          /\ c.st = IF c.attempt = 0 THEN "pending" ELSE "backoff"
    /\ c.st # "pending" => d.st # "pending"

(* C26: in one uploadFile run every chunk index is dispatched at most      *)
(* once, its storage upload is attempted at most MAX_RETRIES = 3 times,    *)
(* its attempt counter never exceeds 3, and nothing is attempted for it    *)
(* after an attempt that succeeded.                                        *)
C26_AtMostThreeAttempts ==
    /\ [](\A r \in Runs :
            /\ \A k, l \in 1..Len(runs[r].queue) :
                  k # l => runs[r].queue[k] # runs[r].queue[l]
            /\ \A i \in Chunks(r) :
                  /\ runs[r].chunks[i].attempt \in 0..MAX_RETRIES
                  /\ Len(runs[r].chunks[i].delays) <= MAX_RETRIES - 1
                  /\ runs[r].chunks[i].st \in {"pending", "skipped"} <=>
                        runs[r].chunks[i].attempt = 0)
    /\ [][\A r \in Runs :
            \A i \in DOMAIN runs[r].chunks \cap DOMAIN runs'[r].chunks :
                C26_ChunkStep(runs[r].chunks[i], runs'[r].chunks[i])]_vars

(* one chunk has succeeded at its third attempt, another has failed three  *)
(* times, and a third one was never dispatched                             *)
C26_Witness ==
    \E r \in Runs : \E i, j, k \in Chunks(r) :
        /\ runs[r].chunks[i].st = "ok"
        /\ runs[r].chunks[i].attempt = MAX_RETRIES
        /\ runs[r].chunks[j].st = "failed"
        /\ runs[r].chunks[j].attempt = MAX_RETRIES
        /\ runs[r].chunks[k].st = "pending"

(* C27: the insert of the catalog record is sent only once uploadFile has  *)
(* resolved, with the final object in place and every chunk uploaded or    *)
(* skipped; an invocation that failed at the bucket check, at a chunk or   *)
(* at the move has sent no insert, and sends none later.                   *)
C27_InsertOnlyAfterUpload ==
    /\ [](\A r \in Runs :
            /\ runs[r].insertIssued =>
                  /\ runs[r].result.state = "resolved"
                  /\ runs[r].completeCalled
                  /\ \A i \in Chunks(r) :
                        runs[r].chunks[i].st \in {"ok", "skipped"}
            /\ runs[r].pc \in {"insert", "done", "closed"} =>
                  runs[r].insertIssued
            /\ (runs[r].pc = "error" /\ runs[r].result.state # "resolved") =>
                  ~runs[r].insertIssued)
    /\ [][\A r \in Runs :
            (~runs[r].insertIssued /\ runs'[r].insertIssued) =>
                /\ runs[r].result.state = "resolved"
                /\ FinalPath(r) \in DOMAIN objects]_vars

(* the insert has been sent for an upload in which a storage upload had    *)
(* failed and was retried                                                  *)
C27_Witness ==
    \E r \in Runs :
        /\ runs[r].insertIssued
        /\ runs[r].pc = "insert"
        /\ \E i \in Chunks(r) : runs[r].chunks[i].attempt = 2

(* C28: for a file of F > 0 bytes the byte ranges uploaded for the chunks  *)
(* 0 .. totalChunks - 1 are non-empty, pairwise disjoint and cover exactly *)
(* [0, F): they lie in [0, F) and their lengths add up to F. Every chunk   *)
(* but the last is 20 MiB long, and chunk i goes to the path of the file   *)
(* followed by .part and i.                                                *)
C28_RangesPartitionFile ==
    (calls.op = "slices" /\ calls.file > 0) =>
        LET F == calls.file
            n == calls.totalChunks
            b == calls.bytes
        IN /\ n >= 1
           /\ DOMAIN b = 0..(n - 1)
           /\ \A i \in 0..(n - 1) :
                 /\ 0 <= b[i].from
                 /\ b[i].from < b[i].to
                 /\ b[i].to <= F
                 /\ i < n - 1 => b[i].to - b[i].from = 20 * 1024 * 1024
                 /\ b[i].to - b[i].from <= 20 * 1024 * 1024
                 /\ calls.chunkPath[i] = <<F, i>>
           /\ \A i, j \in 0..(n - 1) :
                 i < j => b[i].to <= b[j].from
           /\ Sum([i \in 0..(n - 1) |-> b[i].to - b[i].from], 0..(n - 1)) = F

(* a file of two chunks and one byte: three ranges, the last one byte long *)
C28_Witness ==
    /\ calls.op = "slices"
    /\ calls.file = 2 * 20 * 1024 * 1024 + 1
    /\ calls.totalChunks = 3
    /\ calls.bytes[2] = [from |-> 2 * 20 * 1024 * 1024,
                         to |-> 2 * 20 * 1024 * 1024 + 1]

(* C29: the pending chunks are dispatched in ascending order of their      *)
(* indices: while a chunk has not been dispatched, no chunk with a higher  *)
(* index has been. (That they may complete in any order is shown by the    *)
(* state C29_Witness.)                                                     *)
C29_DispatchAscending ==
    \A r \in Runs : \A i, j \in Chunks(r) :
        (i < j /\ runs[r].chunks[i].st = "pending") =>
            runs[r].chunks[j].st \in {"pending", "skipped"}

(* chunk 3 has completed while chunk 1, dispatched before it, is still     *)
(* being uploaded; chunk 0 was skipped                                     *)
C29_Witness ==
    \E r \in Runs :
        /\ Chunks(r) = 0..3
        /\ runs[r].chunks[0].st = "skipped"
        /\ runs[r].chunks[1].st \in {"upload", "backoff"}
        /\ runs[r].chunks[2].st = "ok"
        /\ runs[r].chunks[3].st = "ok"

(* C30: the index list of every ledger record holds no index twice, also   *)
(* after a chunk whose index is saved from the progress callback and again *)
(* when uploadChunk has returned.                                          *)
C30_LedgerHasNoDuplicates ==
    \A id \in DOMAIN ledger :
        LET stored == ledger[id].uploadedChunks
        IN /\ \A k, l \in 1..Len(stored) : k # l => stored[k] # stored[l]
           /\ Len(stored) = Cardinality(Range(stored))
           /\ Len(stored) <= ledger[id].totalChunks

(* three chunks have completed, each saved twice: the record lists three   *)
(* indices                                                                 *)
C30_Witness ==
    \E r \in Runs :
        /\ Cardinality(WithState(r, "ok")) = 3
        /\ runs[r].uploadId \in DOMAIN ledger
        /\ Len(ledger[runs[r].uploadId].uploadedChunks) = 3

(* C31: when the list call of the bucket check answered with an error or   *)
(* threw, handleUpload has set the error state and has returned: the       *)
(* invocation never calls uploadFile, so it plans and dispatches no chunk, *)
(* writes no object, does not call completeUpload and sends no insert.     *)
C31_BucketFailureStopsUpload ==
    /\ [](\A r \in Runs :
            runs[r].list \in {"notFound", "error", "threw"} =>
                /\ runs[r].pc = "error"
                /\ runs[r].result.state = "notCalled"
                /\ runs[r].chunks = <<>>
                /\ runs[r].queue = <<>>
                /\ ~runs[r].completeCalled
                /\ ~runs[r].insertIssued
                /\ \A q \in DOMAIN objects : q[1] # r)
    /\ [][\A r \in Runs :
            (runs[r].list = "none" /\ runs'[r].list \in {"notFound", "error", "threw"}) =>
                (status' = "error" /\ progress' = Whole(0))]_vars

(* the list call threw; the modal shows the error and nothing was uploaded *)
C31_Witness ==
    /\ nRuns = 1
    /\ runs[1].list = "threw"
    /\ runs[1].pc = "error"
    /\ status = "error"
    /\ objects = <<>>

(* C32: the play_count update of a handlePlayMix invocation is sent only   *)
(* with a URL resolved, in the step that hands the mix and the URL to the  *)
(* player; an invocation whose URL resolution threw or gave null sends no  *)
(* update; and when an update fails, by an error or by a rejection, the    *)
(* selected mix and the streaming URL stay set and the play counts of the  *)
(* list stay as they are.                                                  *)
C32_PlayCountAfterUrl ==
    /\ [](\A k \in Plays :
            LET play == dashboard.plays[k]
            IN /\ play.updateIssued =>
                     /\ play.url.outcome = "returned"
                     /\ play.url.value[1] \in {"public", "signed"}
                     /\ play.updateValue = play.mix.play_count + 1
                     /\ dashboard.selectedMix # NoMix
                     /\ dashboard.streamingUrl # NoStreamingUrl
               /\ (\/ play.url.outcome = "threw"
                   \/ (play.url.outcome = "returned" /\ play.url.value[1] = "null")) =>
                     (~play.updateIssued /\ play.pc = "done"))
    /\ [][\A k \in Plays :
            LET play == dashboard.plays[k]
                after == dashboard'.plays[k]
            IN /\ (~play.updateIssued /\ after.updateIssued) =>
                     /\ dashboard'.selectedMix = play.mix
                     /\ dashboard'.streamingUrl = after.url.value
               /\ (play.update = "none" /\ after.update \in {"error", "rejected"}) =>
                     /\ dashboard'.selectedMix = dashboard.selectedMix
                     /\ dashboard'.streamingUrl = dashboard.streamingUrl
                     /\ dashboard'.mixes = dashboard.mixes]_vars

(* the update of one invocation failed while playback goes on, and the     *)
(* URL resolution of another invocation threw                              *)
C32_Witness ==
    \E k, l \in Plays :
        /\ dashboard.plays[k].update = "error"
        /\ dashboard.selectedMix = dashboard.plays[k].mix
        /\ dashboard.streamingUrl = dashboard.plays[k].url.value
        /\ dashboard.mixes[1].play_count = dashboard.plays[k].mix.play_count
        /\ dashboard.plays[l].url.outcome = "threw"
        /\ ~dashboard.plays[l].updateIssued

(* C33: the ledger record of an upload lists only indices below            *)
(* totalChunks of chunks whose storage upload has succeeded, or that the   *)
(* record held when the upload started: none of a chunk that is pending,   *)
(* in flight, in a backoff or failed. Before the first chunk has succeeded *)
(* there is no record, unless one was found at the start, and then it is   *)
(* that one.                                                               *)
C33_LedgerListsOnlyUploaded ==
    \A r \in Runs :
        (Planned(r) /\ runs[r].uploadId \in DOMAIN ledger) =>
            LET stored == Range(ledger[runs[r].uploadId].uploadedChunks)
                atStart == Range(runs[r].loaded)
            IN /\ stored \subseteq 0..(runs[r].totalChunks - 1)
               /\ stored \subseteq WithState(r, "ok") \cup atStart
               /\ \A i \in stored \ atStart :
                     runs[r].chunks[i].st \notin
                         {"pending", "upload", "backoff", "failed"}
               /\ WithState(r, "ok") = {} =>
                     (atStart # {} /\ stored = atStart)

(* chunk 0 was listed at the start and chunk 1 has succeeded: both are     *)
(* listed; chunk 2 has failed and chunk 3 is in flight, and neither is     *)
C33_Witness ==
    \E r \in Runs :
        /\ Planned(r)
        /\ runs[r].loaded = <<0>>
        /\ runs[r].uploadId \in DOMAIN ledger
        /\ ledger[runs[r].uploadId].uploadedChunks = <<0, 1>>
        /\ Chunks(r) = 0..3
        /\ runs[r].chunks[1].st = "ok"
        /\ runs[r].chunks[2].st = "failed"
        /\ runs[r].chunks[3].st = "upload"

(* C34 as claimed: uploadFile is never started by one invocation of        *)
(* handleUpload while a chunk upload of an earlier invocation is in        *)
(* flight, in a storage call or in a backoff.                              *)
C34_OnePipelineAtATime ==
    [][\A r \in Runs :
          (runs[r].pc = "hash" /\ runs'[r].pc = "map") =>
              \A q \in 1..(r - 1) : InFlight(q) = {}]_vars

(* C35 as claimed: once the modal shows success with progress 100 for an   *)
(* upload, its status does not change to error.                            *)
C35_SuccessIsFinal ==
    [][(status = "success" /\ progress = Whole(100)) =>
          status' # "error"]_vars

(* C36: when every storage call settles and every backoff timer fires,     *)
(* every uploadFile run that was started settles: it resolves, after       *)
(* completeUpload, or it rejects.                                          *)
C36_UploadFileTerminates ==
    \A r \in Runs :
        (runs[r].result.state = "pending") ~>
            (\/ runs[r].result.state = "resolved" /\ runs[r].completeCalled
             \/ runs[r].result.state = "rejected")

(* an upload of four chunks has resolved after a chunk needed all three    *)
(* attempts                                                                *)
C36_Witness ==
    \E r \in Runs :
        /\ runs[r].result.state = "resolved"
        /\ runs[r].totalChunks = 4
        /\ \E i \in Chunks(r) : runs[r].chunks[i].attempt = MAX_RETRIES

(* C37: a call of getStreamingUrl with an empty path has returned null: it *)
(* has not thrown, it is past neither the construction of the public URL   *)
(* nor the probe, no probe has answered and no signed URL was requested.   *)
C37_EmptyPathReturnsNull ==
    (calls.op = "url" /\ calls.path = "") =>
        /\ calls.pc = "done"
        /\ calls.outcome = "returned"
        /\ calls.value = NoUrl
        /\ calls.error = "none"
        /\ calls.probe = 0
        /\ calls.signTtl = -1
        /\ calls.sign = NoReply

C37_Witness ==
    /\ calls.op = "url"
    /\ calls.path = ""
    /\ calls.outcome = "returned"
    /\ calls.value = NoUrl

====
